---- MODULE Spec2Model ----
(***************************************************************************)
(* Frame cache, feed poller and playback controller of the weather         *)
(* dashboard (src/src/App.jsx): MiniRadar and RadarTab poll the RainViewer *)
(* manifest, merge it into a window persisted in localStorage and animate  *)
(* an index over the merged window.                                        *)
(***************************************************************************)
EXTENDS Integers, Sequences, FiniteSets, TLC

(* ------------------------------ bounds --------------------------------- *)

\* Frame times and the wall clock lie on the grid 0, Grid, ..., MaxStep * Grid.
MaxStep == 2

\* The opaque tile locators a frame can carry.
Paths == {"a", "b"}

\* Longest snowfall series of a model response.
MaxLen == 2

\* Largest snowfall value of a model response.
MaxSnow == 1

\* The requests the pollers of a component issue in a behaviour.
MaxRequests == 3

\* The locations the dashboard is pointed at.
Locations == {"A", "B"}

\* Most features of an alerts response.
MaxFeatures == 2

\* Largest US AQI reported.
MaxAqi == 500

\* Longest data.satellite.infrared list of a manifest.
MaxSat == 2

\* The fetches of one refresh that reject or whose response is not ok, the
\* responses of the two models aside.
MaxFailures == 1

(* --------------------------- program constants ------------------------- *)

MAX_AGE_HOURS == 4

MAX_AGE_SECONDS == MAX_AGE_HOURS * 60 * 60

Components == {"MiniRadar", "RadarTab"}

\* Seconds between two points of the time grid: the retention horizon, so that
\* a frame can lie below the cutoff, on it, on the poll's now, or later.
Grid == MAX_AGE_SECONDS

(* ------------------------------- frames -------------------------------- *)

Times == {k * Grid : k \in 0..MaxStep}

FramesOn(paths) == [time : Times, path : paths]

\* The lists of at most one frame.
ShortLists(S) == {<<>>} \cup {<<f>> : f \in S}

\* The parsed manifest bodies over the given paths: data.radar.past and
\* data.radar.nowcast; missing holds the keys the feed left out (undefined),
\* whose lists are then empty. past ++ nowcast can repeat a time and can be
\* out of order.
ManifestsOn(paths) ==
    {d \in [past : ShortLists(FramesOn(paths)),
            nowcast : ShortLists(FramesOn(paths)),
            missing : SUBSET {"past", "nowcast"}] :
        /\ "past" \in d.missing => d.past = <<>>
        /\ "nowcast" \in d.missing => d.nowcast = <<>>}

\* (data.radar.past || []).concat(data.radar.nowcast || []); RadarTab calls
\* data.radar.past.concat directly and is only reached with past defined.
newFramesOf(d) == d.past \o d.nowcast

\* JSON.stringify of a frame list: the stored text, one <<time, path>> entry
\* per frame.
JSONstringify(frames) ==
    [i \in 1..Len(frames) |-> <<frames[i].time, frames[i].path>>]

\* JSON.parse of a stored text.
JSONparse(text) ==
    [i \in 1..Len(text) |-> [time |-> text[i][1], path |-> text[i][2]]]

\* Slip: the poll merges into what it read before its request went out, here
\* an empty cache.
cachedFramesOf_Stale(stored, getItemOk) == <<>>

\* let cachedFrames = []; try { const cached = getItem(KEY);
\* if (cached) cachedFrames = JSON.parse(cached) } catch (e) {}
cachedFramesOf(stored, getItemOk) ==
    IF getItemOk /\ stored # <<>> THEN JSONparse(stored[1]) ELSE <<>>

\* const cutoff = now - MAX_AGE_SECONDS
cutoffOf(nowS) == nowS - MAX_AGE_SECONDS

\* Slip: every set adds an entry, as pushing onto an array would.
MapSet_Append(m, f) == Append(m, f)

\* frameMap.set(f.time, f) on an insertion-ordered Map kept as the list of its
\* values: an existing key keeps its position and takes the new value.
MapSet(m, f) ==
    IF \E i \in 1..Len(m) : m[i].time = f.time
    THEN [i \in 1..Len(m) |-> IF m[i].time = f.time THEN f ELSE m[i]]
    ELSE Append(m, f)

\* Slip: f.time > cutoff.
RECURSIVE AddCached_Strict(_, _, _)
AddCached_Strict(m, frames, cutoff) ==
    IF frames = <<>> THEN m
    ELSE AddCached_Strict(IF Head(frames).time > cutoff THEN MapSet(m, Head(frames)) ELSE m,
                          Tail(frames), cutoff)

\* cachedFrames.forEach(f => { if (f.time >= cutoff) frameMap.set(f.time, f) })
RECURSIVE AddCached(_, _, _)
AddCached(m, frames, cutoff) ==
    IF frames = <<>> THEN m
    ELSE AddCached(IF Head(frames).time >= cutoff THEN MapSet(m, Head(frames)) ELSE m,
                   Tail(frames), cutoff)

\* newFrames.forEach(f => frameMap.set(f.time, f))
RECURSIVE AddNew(_, _)
AddNew(m, frames) ==
    IF frames = <<>> THEN m
    ELSE AddNew(MapSet(m, Head(frames)), Tail(frames))

\* One insertion step of the stable sort by (a, b) => a.time - b.time.
RECURSIVE InsertByTime(_, _)
InsertByTime(sorted, f) ==
    IF sorted = <<>> THEN <<f>>
    ELSE IF Head(sorted).time - f.time <= 0
         THEN <<Head(sorted)>> \o InsertByTime(Tail(sorted), f)
         ELSE <<f>> \o sorted

\* Slip: the sort left out, the Map's insertion order kept.
SortByTime_Unsorted(frames) == frames

\* Array.prototype.sort((a, b) => a.time - b.time)
RECURSIVE SortByTime(_)
SortByTime(frames) ==
    IF frames = <<>> THEN <<>>
    ELSE InsertByTime(SortByTime(SubSeq(frames, 1, Len(frames) - 1)),
                      frames[Len(frames)])

\* Slip: the two loops swapped, so that cached frames overwrite fresh ones.
frameMapOf_CachedLast(cachedFrames, newFrames, nowS) ==
    AddCached(AddNew(<<>>, newFrames), cachedFrames, cutoffOf(nowS))

\* const frameMap = new Map(); the two forEach loops, in this order.
frameMapOf(cachedFrames, newFrames, nowS) ==
    AddNew(AddCached(<<>>, cachedFrames, cutoffOf(nowS)), newFrames)

\* const allFrames = Array.from(frameMap.values()).sort(...)
allFramesOf(cachedFrames, newFrames, nowS) ==
    SortByTime(frameMapOf(cachedFrames, newFrames, nowS))

\* allFrames.filter(f => f.time <= now)
RECURSIVE PastOnly(_, _)
PastOnly(frames, nowS) ==
    IF frames = <<>> THEN <<>>
    ELSE IF Head(frames).time <= nowS
         THEN <<Head(frames)>> \o PastOnly(Tail(frames), nowS)
         ELSE PastOnly(Tail(frames), nowS)

\* try { localStorage.setItem(KEY, JSON.stringify(allFrames.filter(...))) }
\* catch (e) {}: the stored text after the write.
storedAfter(stored, allFrames, nowS, setItemOk) ==
    IF setItemOk THEN <<JSONstringify(PastOnly(allFrames, nowS))>> ELSE stored

(* ------------------------------- playback ------------------------------ *)

\* (prev) => (prev + 1) % radarFrames.length, with the length the interval's
\* closure captured.
Advance(prev, length) == (prev + 1) % length

Max(a, b) == IF a >= b THEN a ELSE b

Min(a, b) == IF a <= b THEN a ELSE b

\* (prev) => Math.max(0, prev - 1)
SkipBack(prev) == Max(0, prev - 1)

\* (prev) => Math.min(radarFrames.length - 1, prev + 1)
SkipForward(prev, length) == Min(length - 1, prev + 1)

(* -------------------------------- fusion ------------------------------- *)

\* An entry of a snowfall array: <<>> is JSON null, <<v>> the number v.
Null == <<>>

SnowValues == {Null} \cup {<<v>> : v \in 0..MaxSnow}

SnowArrays == UNION {[1..k -> SnowValues] : k \in 0..MaxLen}

\* hourly.snowfall or daily.snowfall_sum of a response body: <<>> when the
\* key is missing, <<array>> otherwise.
Series == {<<>>} \cup {<<a>> : a \in SnowArrays}

\* The series of the axis a behaviour does not vary.
PlainSeries == {<<>>, << <<<<1>>, <<0>>>> >>, << <<<<0>>, <<1>>>> >>}

\* The GFS requests: precipitation_unit=inch.
GfsRequest == [model |-> "gfs", precipitation_unit |-> "inch"]

\* The GEM requests: no unit parameter.
GemRequest == [model |-> "gem", precipitation_unit |-> "default"]

\* The unit the forecast API reports snowfall in: inch when the request
\* carries precipitation_unit=inch, centimetres by default.
snowfallUnitOf(request) ==
    IF request.precipitation_unit = "inch" THEN "inch" ELSE "cm"

\* ToNumber of an array entry: null is 0.
ToNumber(v) == IF v = Null THEN 0 ELSE v[1]

\* gem[i] || 0: an index past the end (undefined), null and 0 all give 0.
OrZero(arr, i) ==
    IF i > Len(arr) \/ arr[i] = Null \/ arr[i] = <<0>> THEN 0 ELSE arr[i][1]

\* Slip: the primary value alone.
MathMax_First(a, b) == a

\* Math.max(a, b) of two numbers.
MathMax(a, b) == IF a >= b THEN a ELSE b

\* Slip: the map runs over the indices both arrays have.
fuse_Prefix(gfsArr, gemArr) ==
    [i \in 1..(IF Len(gfsArr) <= Len(gemArr) THEN Len(gfsArr) ELSE Len(gemArr)) |->
        <<MathMax(ToNumber(gfsArr[i]), OrZero(gemArr, i))>>]

\* gfs.map((gfs, i) => Math.max(gfs, gem[i] || 0))
fuse(gfsArr, gemArr) ==
    [i \in 1..Len(gfsArr) |-> <<MathMax(ToNumber(gfsArr[i]), OrZero(gemArr, i))>>]

\* if (gem.x?.snowfall && gfs.x?.snowfall) gfs.x.snowfall = gfs.x.snowfall.map(...)
fusedSeries(gfsSeries, gemSeries) ==
    IF gemSeries # <<>> /\ gfsSeries # <<>>
    THEN <<fuse(gfsSeries[1], gemSeries[1])>>
    ELSE gfsSeries

\* The pairs of units Math.max was applied to.
unitsAtMax(gfsSeries, gemSeries) ==
    IF gemSeries # <<>> /\ gfsSeries # <<>>
          /\ gfsSeries[1] # <<>>
    THEN {<<snowfallUnitOf(GfsRequest), snowfallUnitOf(GemRequest)>>}
    ELSE {}

(* -------------------------------- state -------------------------------- *)

VARIABLES
    comp,           \* the mounted component: MiniRadar or RadarTab
    now,            \* Math.floor(Date.now() / 1000)
    cache,          \* localStorage[CACHE_KEY]: <<>> (no item) or <<the stored text>>
    data,           \* <<the manifest of the latest poll>>; <<>>: none, or the poll threw
    pending,        \* data still awaits the rest of the poll
    again,          \* data repeats the manifest merged last, within the same second
    cachedFrames,   \* cachedFrames as the latest merge read them
    pollNow,        \* now as the latest merge read it
    radarFrames,    \* useState([])
    currentFrame,   \* useState(0)
    isPlaying,      \* RadarTab: useState(false)
    zoomComplete,   \* MiniRadar: useState(false)
    interval,       \* radarFrames.length in the closure of the live playback interval; 0: none
    op,             \* the operation that set the component's state last
    cacheKind,      \* what the stored text is: "frames", "invalidJSON" or "object"
    shownGen,       \* the request whose result radarFrames shows (0: none)
    mounted,        \* the component is mounted
    pollTimer,      \* live intervals of the frames poller
    alertTimer,     \* live intervals of the RadarTab alerts poller
    location,       \* the location prop
    requests,       \* the requests in flight: [poller, gen, loc]
    issued,         \* the number of requests issued so far
    dataGen,        \* the request that data answers
    dataOk,         \* res.ok of the response that carried data
    alertsGeoJson,  \* RadarTab: useState(null): <<>> or <<the feature collection>>
    alertsGen,      \* the request whose result alertsGeoJson shows (0: none)
    pointRes,       \* <<the response the latest fetchAlerts got to its point query>>
    stateRes,       \* <<the response it got to its state-wide query>>; <<>>: not issued
    handler,        \* the refresh under way: ModelsTab.fetchExtended or App.fetchWeatherData
    gfsRes,         \* the GFS response: [ok, hourly, daily]
    gemRes,         \* the GEM response: [ok, hourly, daily]
    fused,          \* <<the data handed to setExtendedData / setDailyForecast>>, or <<>>
    maxUnits,       \* the pairs of units Math.max has been applied to
    awaiting,       \* the refresh awaits its responses
    rejected,       \* the fetches of the refresh whose promise rejects
    notOk,          \* the other responses of the refresh with ok false
    fetched,        \* the fetches the refresh has issued
    setStates,      \* the state setters the refresh has called with data
    loading,        \* App: useState(true)
    error,          \* App: useState(null): <<>> or <<err.message>>
    satellite,      \* <<data.satellite.infrared of the response in data>>; <<>>: key missing
    satelliteFrames,\* RadarTab: useState([])
    zoomStage,      \* ZoomAnimator: "init", "delay" (300 ms timer set) or "flying"
    zoomCallbacks,  \* ZoomAnimator: the callbacks still to fire, of "zoomend" and "fallback"
    usAqi,          \* airQuality.current.us_aqi: <<>> (undefined) or <<n>>
    aqiLevel,       \* <<the label getAqiLevel gave for usAqi>>
    aqiLabel,       \* <<the label QuickStats.getAqiLabel gave for usAqi>>
    locating,       \* App: useState(false)
    geo             \* getCurrentPosition: "idle" or "asked"

timerVars == <<mounted, pollTimer, alertTimer>>

alertVars == <<alertsGeoJson, alertsGen, pointRes, stateRes>>

lifeVars == <<mounted, pollTimer, alertTimer, location, requests, issued, dataGen,
              dataOk, alertsGeoJson, alertsGen, pointRes, stateRes>>

radarVars == <<comp, now, cache, data, pending, again, cachedFrames, pollNow,
               radarFrames, currentFrame, isPlaying, zoomComplete, interval, op,
               cacheKind, shownGen, lifeVars>>

refreshVars == <<awaiting, rejected, notOk, fetched, setStates, loading, error>>

fusionVars == <<handler, gfsRes, gemRes, fused, maxUnits, refreshVars>>

satVars == <<satellite, satelliteFrames>>

zoomVars == <<zoomStage, zoomCallbacks>>

viewVars == <<usAqi, aqiLevel, aqiLabel, locating, geo>>

restVars == <<fusionVars, satVars, zoomVars, viewVars>>

vars == <<radarVars, restVars>>

pollVars == <<cache, cacheKind, data, pending, again, cachedFrames, pollNow, shownGen>>

playVars == <<currentFrame, isPlaying, zoomComplete, interval>>

\* Slip: the MiniRadar effect without its !zoomComplete guard.
PlaybackEffect_Ungated(c, frames, playing, zoomed) ==
    IF c = "RadarTab"
    THEN IF ~playing \/ Len(frames) = 0 THEN 0 ELSE Len(frames)
    ELSE IF Len(frames) = 0 THEN 0 ELSE Len(frames)

\* The playback effect, rerun on [isPlaying, radarFrames.length] (RadarTab) or
\* on [radarFrames.length, zoomComplete] (MiniRadar): the interval it leaves.
PlaybackEffect(c, frames, playing, zoomed) ==
    IF c = "RadarTab"
    THEN IF ~playing \/ Len(frames) = 0 THEN 0 ELSE Len(frames)
    ELSE IF Len(frames) = 0 \/ ~zoomed THEN 0 ELSE Len(frames)

\* State has been set outside a React event handler (after an await, in a
\* timer or in a map event) and the render that reruns the playback effect is
\* still to come: the render is a task of its own, queued behind the tasks
\* that were already due, and until it ran the live interval is the one the
\* last render created.
EffectDue ==
    /\ mounted
    /\ interval # PlaybackEffect(comp, radarFrames, isPlaying, zoomComplete)

\* No forecast refresh under way.
FusionIdle ==
    /\ handler = "none"
    /\ gfsRes = [ok |-> FALSE, hourly |-> <<>>, daily |-> <<>>]
    /\ gemRes = [ok |-> FALSE, hourly |-> <<>>, daily |-> <<>>]
    /\ fused = <<>>
    /\ maxUnits = {}
    /\ awaiting = FALSE
    /\ rejected = {}
    /\ notOk = {}
    /\ fetched = {}
    /\ setStates = {}
    /\ loading = TRUE
    /\ error = <<>>

RadarInit ==
    /\ comp \in Components
    /\ now = MAX_AGE_SECONDS
    /\ cache = <<>>
    /\ data = <<>>
    /\ pending = FALSE
    /\ again = FALSE
    /\ cachedFrames = <<>>
    /\ pollNow = 0
    /\ radarFrames = <<>>
    /\ currentFrame = 0
    /\ isPlaying = FALSE
    /\ zoomComplete = FALSE
    /\ interval = 0
    /\ op = "mount"
    /\ cacheKind = "frames"
    /\ shownGen = 0
    /\ mounted = TRUE
    /\ pollTimer = 0
    /\ alertTimer = 0
    /\ location = "A"
    /\ requests = {}
    /\ issued = 0
    /\ dataGen = 0
    /\ dataOk = TRUE
    /\ alertsGeoJson = <<>>
    /\ alertsGen = 0
    /\ pointRes = <<>>
    /\ stateRes = <<>>

\* The rest of the page before anything happened.
ViewIdle ==
    /\ satellite = <<>>
    /\ satelliteFrames = <<>>
    /\ zoomStage = "init"
    /\ zoomCallbacks = {}
    /\ usAqi = <<>>
    /\ aqiLevel = <<>>
    /\ aqiLabel = <<>>
    /\ locating = FALSE
    /\ geo = "idle"

Init == RadarInit /\ FusionIdle /\ ViewIdle

\* The page is loaded again: the component mounts with its initial state and
\* no request in flight; localStorage is what it was.
Reload ==
    /\ mounted
    /\ radarFrames # <<>>
    /\ data' = <<>>
    /\ pending' = FALSE
    /\ again' = FALSE
    /\ cachedFrames' = <<>>
    /\ pollNow' = 0
    /\ radarFrames' = <<>>
    /\ currentFrame' = 0
    /\ isPlaying' = FALSE
    /\ zoomComplete' = FALSE
    /\ interval' = 0
    /\ op' = "mount"
    /\ shownGen' = 0
    /\ satellite' = <<>>
    /\ satelliteFrames' = <<>>
    /\ UNCHANGED <<comp, now, cache, cacheKind, lifeVars, fusionVars, zoomVars, viewVars>>

\* The wall clock moves on.
ClockAdvance ==
    /\ ~EffectDue
    /\ now + Grid <= MaxStep * Grid
    /\ now' = now + Grid
    /\ UNCHANGED <<comp, pollVars, radarFrames, playVars, op, lifeVars, restVars>>

\* await fetch(...); await res.json(): the poll's request resolves with a
\* manifest over the given paths.
FetchResolves(paths) ==
    /\ ~EffectDue
    /\ ~pending
    /\ \E d \in ManifestsOn(paths) :
          /\ data' = <<d>>
          /\ again' = (data = <<d>> /\ pollNow = now)
    /\ pending' = TRUE
    /\ UNCHANGED <<comp, now, cache, cacheKind, cachedFrames, pollNow, shownGen,
                   radarFrames, playVars, op, lifeVars, restVars>>

\* fetch or res.json() rejects, or data.radar is missing: the catch logs and
\* returns.
FetchFails ==
    /\ ~EffectDue
    /\ ~pending
    /\ UNCHANGED vars

\* An exception reaches the catch of the poll: it logs and returns, nothing
\* is stored or set.
PollThrows ==
    /\ pending' = FALSE
    /\ data' = <<>>
    /\ again' = FALSE
    /\ satellite' = <<>>
    /\ UNCHANGED <<comp, now, cache, cacheKind, cachedFrames, pollNow, shownGen,
                   radarFrames, playVars, op, lifeVars, fusionVars, satelliteFrames,
                   zoomVars, viewVars>>

\* The body of the poll after the awaits: merge, persist, set state. The two
\* sets are batched into one render, which comes later; on a component that
\* is no longer mounted React drops them. The inner try covers getItem and
\* JSON.parse only: a stored text that parses to something without forEach
\* makes cachedFrames.forEach throw into the outer catch.
MergeAndSet(getItemOk, setItemOk) ==
    IF getItemOk /\ cache # <<>> /\ cacheKind = "object"
    THEN PollThrows
    ELSE LET newFrames == newFramesOf(data[1])
             read == cachedFramesOf(cache, getItemOk /\ cacheKind = "frames")
             allFrames == allFramesOf(read, newFrames, now)
         IN  /\ cachedFrames' = read
             /\ pollNow' = now
             /\ cache' = storedAfter(cache, allFrames, now, setItemOk)
             /\ cacheKind' = IF setItemOk THEN "frames" ELSE cacheKind
             /\ radarFrames' = IF mounted THEN allFrames ELSE radarFrames
             /\ currentFrame' = IF mounted THEN 0 ELSE currentFrame
             /\ shownGen' = IF mounted THEN dataGen ELSE shownGen
             /\ pending' = FALSE
             /\ op' = IF mounted THEN "poll" ELSE op
             /\ satelliteFrames' = IF mounted /\ comp = "RadarTab" /\ satellite # <<>>
                                   THEN satellite[1] ELSE satelliteFrames
             /\ satellite' = <<>>
             /\ UNCHANGED <<comp, now, data, again, isPlaying, zoomComplete, interval,
                            lifeVars, fusionVars, zoomVars, viewVars>>

\* MiniRadar.fetchRadar, with getItem and setItem succeeding as storage allows.
fetchRadar(storage) ==
    /\ comp = "MiniRadar"
    /\ pending
    /\ \E getItemOk, setItemOk \in storage : MergeAndSet(getItemOk, setItemOk)

\* RadarTab.fetchFrames: data.radar.past.concat throws when past is missing.
fetchFrames(storage) ==
    /\ comp = "RadarTab"
    /\ pending
    /\ IF "past" \in data[1].missing
       THEN PollThrows
       ELSE \E getItemOk, setItemOk \in storage : MergeAndSet(getItemOk, setItemOk)

\* The render after a poll or after the zoom: the cleanup of the playback
\* effect clears the interval and the effect creates the next one.
RunPlaybackEffect ==
    /\ EffectDue
    /\ interval' = PlaybackEffect(comp, radarFrames, isPlaying, zoomComplete)
    /\ UNCHANGED <<comp, now, pollVars, radarFrames, currentFrame, isPlaying,
                   zoomComplete, op, lifeVars, restVars>>

\* The playback interval fires: its updater takes the length of its closure.
\* A tick that was due when a poll set the state runs before the render, that
\* is once with the interval the poll found.
PlaybackTick ==
    /\ interval # 0
    /\ EffectDue => op = "poll"
    /\ currentFrame' = Advance(currentFrame, interval)
    /\ op' = "tick"
    /\ UNCHANGED <<comp, now, pollVars, radarFrames, isPlaying, zoomComplete, interval,
                   lifeVars, restVars>>

\* setZoomComplete(true)
setZoomComplete ==
    /\ zoomComplete' = TRUE
    /\ op' = "zoom"
    /\ UNCHANGED <<comp, now, pollVars, radarFrames, currentFrame, isPlaying, interval,
                   lifeVars, fusionVars, satVars, viewVars>>

\* MiniRadar.handleZoomComplete, called by ZoomAnimator.
handleZoomComplete ==
    /\ comp = "MiniRadar"
    /\ mounted
    /\ ~EffectDue
    /\ setZoomComplete
    /\ UNCHANGED zoomVars

\* RadarTab skip-back button (disabled at index 0).
SkipBackClick ==
    /\ comp = "RadarTab"
    /\ mounted
    /\ ~EffectDue
    /\ currentFrame # 0
    /\ currentFrame' = SkipBack(currentFrame)
    /\ op' = "skipBack"
    /\ UNCHANGED <<comp, now, pollVars, radarFrames, isPlaying, zoomComplete, interval,
                   lifeVars, restVars>>

\* RadarTab skip-forward button (disabled at index length - 1).
SkipForwardClick ==
    /\ comp = "RadarTab"
    /\ mounted
    /\ ~EffectDue
    /\ currentFrame # Len(radarFrames) - 1
    /\ currentFrame' = SkipForward(currentFrame, Len(radarFrames))
    /\ op' = "skipForward"
    /\ UNCHANGED <<comp, now, pollVars, radarFrames, isPlaying, zoomComplete, interval,
                   lifeVars, restVars>>

\* RadarTab play/pause button; the render of a click and its effects are over
\* when the click returns.
PlayPauseClick ==
    /\ comp = "RadarTab"
    /\ mounted
    /\ ~EffectDue
    /\ isPlaying' = ~isPlaying
    /\ interval' = PlaybackEffect(comp, radarFrames, ~isPlaying, zoomComplete)
    /\ op' = "playPause"
    /\ UNCHANGED <<comp, now, pollVars, radarFrames, currentFrame, zoomComplete,
                   lifeVars, restVars>>

\* RadarTab timeline scrubber (range input, min 0, max length - 1).
ScrubberChange ==
    /\ comp = "RadarTab"
    /\ mounted
    /\ ~EffectDue
    /\ \E i \in 0..(Len(radarFrames) - 1) :
          /\ i # currentFrame
          /\ currentFrame' = i
    /\ isPlaying' = FALSE
    /\ interval' = PlaybackEffect(comp, radarFrames, FALSE, zoomComplete)
    /\ op' = "scrub"
    /\ UNCHANGED <<comp, now, pollVars, radarFrames, zoomComplete, lifeVars,
                   restVars>>

\* localStorage works.
Reliable == {TRUE}

\* localStorage works or throws (quota, disabled storage).
Unreliable == BOOLEAN

\* The feed poller and the frame cache over a working localStorage, with the
\* playback controls at rest.
NextFrames ==
    \/ Reload
    \/ ClockAdvance
    \/ FetchResolves(Paths)
    \/ FetchFails
    \/ fetchRadar(Reliable)
    \/ fetchFrames(Reliable)

SpecFrames == Init /\ [][NextFrames]_vars

\* The poller together with the playback controller; every tile locator is
\* the same one, which leaves the lengths of the windows as they are.
Next ==
    \/ Reload
    \/ ClockAdvance
    \/ FetchResolves({"a"})
    \/ FetchFails
    \/ fetchRadar(Unreliable)
    \/ fetchFrames(Unreliable)
    \/ RunPlaybackEffect
    \/ PlaybackTick
    \/ handleZoomComplete
    \/ SkipBackClick
    \/ SkipForwardClick
    \/ PlayPauseClick
    \/ ScrubberChange

Spec == Init /\ [][Next]_vars

(* ------------------------- mount, polls, teardown ----------------------- *)

\* Slip: a cleanup that leaves its interval running.
clearInterval_Leak(n) == n

\* return () => clearInterval(interval): the effect's interval is gone.
clearInterval(n) == 0

\* The request a poller issues now.
Request(p) == [poller |-> p, gen |-> issued + 1, loc |-> location]

\* The effects of the first render: fetchFrames() / fetchRadar() and, in
\* RadarTab, fetchAlerts() are called and their intervals created.
RunMountEffects ==
    /\ mounted
    /\ issued = 0
    /\ pollTimer' = 1
    /\ alertTimer' = IF comp = "RadarTab" THEN 1 ELSE 0
    /\ requests' = {Request("frames")}
                      \cup (IF comp = "RadarTab"
                            THEN {[poller |-> "alerts", gen |-> 2, loc |-> location]}
                            ELSE {})
    /\ issued' = IF comp = "RadarTab" THEN 2 ELSE 1
    /\ UNCHANGED <<comp, now, pollVars, radarFrames, playVars, op, mounted, location,
                   dataGen, dataOk, alertVars, restVars>>

\* setInterval(fetchFrames, 5 * 60 * 1000) fires: the poll issues its request,
\* whether or not the one before has completed.
PollTick ==
    /\ pollTimer > 0
    /\ issued < MaxRequests
    /\ requests' = requests \cup {Request("frames")}
    /\ issued' = issued + 1
    /\ UNCHANGED <<comp, now, pollVars, radarFrames, playVars, op, timerVars, location,
                   dataGen, dataOk, alertVars, restVars>>

\* setInterval(fetchAlerts, 2 * 60 * 1000) fires.
AlertTick ==
    /\ alertTimer > 0
    /\ issued < MaxRequests
    /\ requests' = requests \cup {Request("alerts")}
    /\ issued' = issued + 1
    /\ UNCHANGED <<comp, now, pollVars, radarFrames, playVars, op, timerVars, location,
                   dataGen, dataOk, alertVars, restVars>>

\* The location prop of RadarTab changes: the alerts effect is cleaned up and
\* run again, with a first fetchAlerts() for the new location.
LocationChange ==
    /\ comp = "RadarTab"
    /\ mounted
    /\ alertTimer > 0
    /\ issued < MaxRequests
    /\ \E l \in Locations \ {location} :
          /\ location' = l
          /\ requests' = requests \cup {[poller |-> "alerts", gen |-> issued + 1, loc |-> l]}
    /\ issued' = issued + 1
    /\ alertTimer' = clearInterval(alertTimer) + 1
    /\ UNCHANGED <<comp, now, pollVars, radarFrames, playVars, op, mounted, pollTimer,
                   dataGen, dataOk, alertVars, restVars>>

\* The component is torn down: the cleanups of its effects run.
Unmount ==
    /\ mounted
    /\ mounted' = FALSE
    /\ interval' = clearInterval(interval)
    /\ pollTimer' = clearInterval(pollTimer)
    /\ alertTimer' = clearInterval(alertTimer)
    /\ UNCHANGED <<comp, now, pollVars, radarFrames, currentFrame, isPlaying,
                   zoomComplete, op, location, requests, issued, dataGen, dataOk,
                   alertVars, restVars>>

\* The manifests whose frames carry the second of the poll.
CurrentManifests ==
    {d \in ManifestsOn({"a"}) :
        \A i \in DOMAIN newFramesOf(d) : newFramesOf(d)[i].time = now}

\* await fetch(...); await res.json() of a frames request in flight resolve,
\* in any order among the requests: res.ok is not looked at.
FramesRespond(manifests) ==
    /\ ~pending
    /\ ~EffectDue
    /\ \E r \in requests :
          /\ r.poller = "frames"
          /\ requests' = requests \ {r}
          /\ dataGen' = r.gen
          /\ \E d \in manifests :
                /\ data' = <<d>>
                /\ again' = (data = <<d>> /\ pollNow = now)
    /\ dataOk' \in BOOLEAN
    /\ pending' = TRUE
    /\ UNCHANGED <<comp, now, cache, cacheKind, cachedFrames, pollNow, shownGen,
                   radarFrames, playVars, op, timerVars, location, issued, alertVars,
                   restVars>>

\* fetch or res.json() of a frames request rejects: the catch logs and returns.
FramesReject ==
    /\ ~pending
    /\ \E r \in requests :
          /\ r.poller = "frames"
          /\ requests' = requests \ {r}
    /\ UNCHANGED <<comp, now, pollVars, radarFrames, playVars, op, timerVars, location,
                   issued, dataGen, dataOk, alertVars, restVars>>

\* A feature of an alerts response: the query it answers and whether it
\* carries a geometry.
FeaturesOf(area) ==
    UNION {[1..k -> [area : {area}, geometry : BOOLEAN]] : k \in 0..MaxFeatures}

\* A response to an alerts query: the fetch rejects, the response is not ok,
\* or it is ok with a body whose features key is missing (<<>>) or a list.
AlertResponses(area) ==
    {[status |-> "rejected", features |-> <<>>], [status |-> "notOk", features |-> <<>>]}
        \cup [status : {"ok"}, features : {<<>>} \cup {<<l>> : l \in FeaturesOf(area)}]

\* The responses of a service that answers with at most one alert, which
\* carries a geometry.
PlainAlertResponses(area) ==
    {[status |-> "notOk", features |-> <<>>],
     [status |-> "ok", features |-> << <<>> >>],
     [status |-> "ok", features |-> << <<[area |-> area, geometry |-> TRUE]>> >>]}

\* Slip: every feature is kept.
withGeometry_All(features) == features

\* features.filter(f => f.geometry)
withGeometry(features) == SelectSeq(features, LAMBDA f : f.geometry)

\* data.features?.filter(f => f.geometry) || []
featuresWithGeometryOf(res) ==
    IF res.features = <<>> THEN <<>> ELSE withGeometry(res.features[1])

\* Slip: the point result is taken whatever its length.
accepted_Always(featuresWithGeometry) == TRUE

\* if (featuresWithGeometry.length > 0)
accepted(featuresWithGeometry) == Len(featuresWithGeometry) > 0

\* What fetchAlerts hands to setAlertsGeoJson, <<>> when it sets nothing,
\* given the response to the point query and the one the state-wide query
\* gets if it is issued.
alertsSet(p, s) ==
    IF p.status # "ok" THEN <<>>
    ELSE IF accepted(featuresWithGeometryOf(p)) THEN <<featuresWithGeometryOf(p)>>
    ELSE IF s.status # "ok" THEN <<>>
    ELSE <<featuresWithGeometryOf(s)>>

\* The state-wide query goes out when the point response is ok and none of
\* its features is accepted.
stateQueried(p) == p.status = "ok" /\ ~accepted(featuresWithGeometryOf(p))

\* The responses the state-wide query can get: it is not issued, and nothing
\* is read from it, unless stateQueried.
stateResponsesTo(p, stateResponses) ==
    IF stateQueried(p) THEN stateResponses ELSE {CHOOSE s \in stateResponses : TRUE}

\* RadarTab.fetchAlerts of a request in flight, with the responses the
\* service gives; React drops the set of an unmounted component.
fetchAlerts(pointResponses, stateResponses) ==
    /\ \E r \in requests :
          /\ r.poller = "alerts"
          /\ requests' = requests \ {r}
          /\ \E p \in pointResponses :
             \E s \in stateResponsesTo(p, stateResponses) :
                /\ pointRes' = <<p>>
                /\ stateRes' = IF stateQueried(p) THEN <<s>> ELSE <<>>
                /\ IF alertsSet(p, s) # <<>> /\ mounted
                   THEN /\ alertsGeoJson' = <<[loc |-> r.loc, features |-> alertsSet(p, s)[1]]>>
                        /\ alertsGen' = r.gen
                   ELSE UNCHANGED <<alertsGeoJson, alertsGen>>
    /\ UNCHANGED <<comp, now, pollVars, radarFrames, playVars, op, timerVars, location,
                   issued, dataGen, dataOk, restVars>>

\* The pollers of a mounted component, its playback interval and its teardown
\* over a working localStorage.
NextLife ==
    \/ RunMountEffects
    \/ PollTick
    \/ AlertTick
    \/ LocationChange
    \/ Unmount
    \/ FramesRespond(CurrentManifests)
    \/ FramesReject
    \/ fetchRadar(Reliable)
    \/ fetchFrames(Reliable)
    \/ fetchAlerts(PlainAlertResponses("point"), PlainAlertResponses("state"))
    \/ RunPlaybackEffect
    \/ PlaybackTick
    \/ handleZoomComplete
    \/ PlayPauseClick

SpecLife == Init /\ [][NextLife]_vars

\* The manifests with both keys present and at most one frame, of any time.
OneFrameManifests ==
    {d \in ManifestsOn({"a"}) : d.missing = {} /\ Len(newFramesOf(d)) <= 1}

\* The frame poller alone while the clock moves: requests that overlap and
\* resolve in any order, with any manifest, over a working localStorage.
NextOverlap ==
    \/ RunMountEffects
    \/ PollTick
    \/ ClockAdvance
    \/ FramesRespond(OneFrameManifests)
    \/ FramesReject
    \/ fetchRadar(Reliable)
    \/ fetchFrames(Reliable)

SpecOverlap == Init /\ [][NextOverlap]_vars

\* The alerts poller of RadarTab with every response the service can give.
NextAlerts ==
    \/ RunMountEffects
    \/ AlertTick
    \/ LocationChange
    \/ Unmount
    \/ fetchAlerts(AlertResponses("point"), AlertResponses("state"))

SpecAlerts == Init /\ [][NextAlerts]_vars

(* ------------------------- an unreliable storage ------------------------ *)

\* What the cache key can hold when something other than the poll wrote it
\* (another script of the origin, the developer tools): a text JSON.parse
\* rejects, or the text of a value without forEach (null, an object, a number).
ForeignKinds == {"invalidJSON", "object"}

\* The cache key is overwritten from outside the poll.
ForeignWrite ==
    /\ ~pending
    /\ cacheKind = "frames"
    /\ \E kind \in ForeignKinds :
          /\ cache' = << <<>> >>
          /\ cacheKind' = kind
    /\ UNCHANGED <<comp, now, data, pending, again, cachedFrames, pollNow, shownGen,
                   radarFrames, playVars, op, lifeVars, restVars>>

\* The poller over a localStorage that can throw and whose key others can
\* write.
NextStore ==
    \/ ClockAdvance
    \/ FetchResolves({"a"})
    \/ FetchFails
    \/ ForeignWrite
    \/ fetchRadar(Unreliable)
    \/ fetchFrames(Unreliable)

SpecStore == Init /\ [][NextStore]_vars

(* --------------------------- forecast refresh -------------------------- *)

\* A response of the forecast API: not ok, or a body with its two series.
Responses(hourlySeries, dailySeries) ==
    {[ok |-> FALSE, hourly |-> <<>>, daily |-> <<>>]}
        \cup [ok : {TRUE}, hourly : hourlySeries, daily : dailySeries]

\* The fetches of App.fetchWeatherData: the grid lookup, then the seven of
\* Promise.all; "model" is the GFS hourly request, "gfs" the GFS daily one.
Fetches == {"points", "forecast", "hourly", "alerts", "model", "gfs", "gem", "aqi"}

\* The fetches of ModelsTab.fetchExtended.
ExtendedFetches == {"gfs", "gem"}

\* The responses whose ok flag gfsRes and gemRes do not carry.
OtherResponses == Fetches \ {"gfs", "gem"}

AtMost(S, n) == {T \in SUBSET S : Cardinality(T) <= n}

\* The ways the fetches of a refresh fail: those that reject, and those whose
\* response is not ok.
Failures(fetches, responses) ==
    {f \in [rejected : AtMost(fetches, MaxFailures),
            notOk : AtMost(responses, MaxFailures)] :
        Cardinality(f.rejected) + Cardinality(f.notOk) <= MaxFailures}

\* err.message of the TypeError a rejected fetch throws.
FailedToFetch == "Failed to fetch"

\* The radar components at rest, a refresh of ModelsTab or of App awaiting
\* its two responses. ModelsTab asks both models for both axes, and a
\* behaviour varies one axis freely; App asks for the daily axis alone.
InitFusion ==
    /\ RadarInit
    /\ ViewIdle
    /\ comp = "RadarTab"
    /\ fused = <<>>
    /\ maxUnits = {}
    /\ awaiting = TRUE
    /\ rejected = {}
    /\ notOk = {}
    /\ fetched = {}
    /\ setStates = {}
    /\ loading = TRUE
    /\ error = <<>>
    /\ \/ /\ handler = "ModelsTab"
          /\ \/ gfsRes \in Responses(Series, PlainSeries) /\ gemRes \in Responses(Series, PlainSeries)
             \/ gfsRes \in Responses(PlainSeries, Series) /\ gemRes \in Responses(PlainSeries, Series)
       \/ /\ handler = "App"
          /\ gfsRes \in Responses({<<>>}, Series)
          /\ gemRes \in Responses({<<>>}, Series)

\* The daily series of the ModelsTab responses, which vary the hourly one.
FixedDaily == {<< <<<<1>>, <<0>>>> >>}

\* The ModelsTab effect runs fetchExtended: both requests go out. One refresh
\* is in flight at a time.
StartExtended ==
    /\ handler \in {"none", "ModelsTab"}
    /\ ~awaiting
    /\ handler' = "ModelsTab"
    /\ awaiting' = TRUE
    /\ gfsRes' \in Responses(PlainSeries, FixedDaily)
    /\ gemRes' \in Responses(PlainSeries, FixedDaily)
    /\ \E f \in Failures(ExtendedFetches, {}) :
          /\ rejected' = f.rejected
          /\ notOk' = f.notOk
    /\ fetched' = {}
    /\ setStates' = {}
    /\ UNCHANGED <<radarVars, satVars, zoomVars, viewVars, fused, maxUnits, loading, error>>

\* The App effect, or its 15-minute interval, calls fetchWeatherData:
\* setLoading(true), setError(null), and the grid lookup goes out. One refresh
\* is in flight at a time.
StartRefresh(dailySeries, failures) ==
    /\ handler \in {"none", "App"}
    /\ ~awaiting
    /\ handler' = "App"
    /\ awaiting' = TRUE
    /\ loading' = TRUE
    /\ error' = <<>>
    /\ gfsRes' \in Responses({<<>>}, dailySeries)
    /\ gemRes' \in Responses({<<>>}, dailySeries)
    /\ \E f \in failures :
          /\ rejected' = f.rejected
          /\ notOk' = f.notOk
    /\ fetched' = {}
    /\ setStates' = {}
    /\ UNCHANGED <<radarVars, satVars, zoomVars, viewVars, fused, maxUnits>>

\* ModelsTab.fetchExtended from Promise.all on: a rejected fetch rejects
\* Promise.all and the catch logs; a GFS response that is not ok sets nothing.
fetchExtended ==
    /\ handler = "ModelsTab"
    /\ awaiting
    /\ awaiting' = FALSE
    /\ fetched' = ExtendedFetches
    /\ IF rejected \cap ExtendedFetches = {} /\ gfsRes.ok
       THEN /\ setStates' = {"extendedData"}
            /\ IF gemRes.ok
               THEN /\ fused' = <<[hourly |-> fusedSeries(gfsRes.hourly, gemRes.hourly),
                                   daily |-> fusedSeries(gfsRes.daily, gemRes.daily)]>>
                    /\ maxUnits' = unitsAtMax(gfsRes.hourly, gemRes.hourly)
                                       \cup unitsAtMax(gfsRes.daily, gemRes.daily)
               ELSE /\ fused' = <<[hourly |-> gfsRes.hourly, daily |-> gfsRes.daily]>>
                    /\ maxUnits' = {}
       ELSE UNCHANGED <<setStates, fused, maxUnits>>
    /\ UNCHANGED <<radarVars, satVars, zoomVars, viewVars, handler, gfsRes, gemRes, rejected, notOk, loading, error>>

\* The setters App.fetchWeatherData calls after Promise.all, one per response
\* that is ok.
settersOf(bad, gfsOk) ==
    {"nwsGrid"}
        \cup (IF "forecast" \in bad THEN {} ELSE {"forecast"})
        \cup (IF "hourly" \in bad THEN {} ELSE {"hourlyForecast"})
        \cup (IF "alerts" \in bad THEN {} ELSE {"alerts"})
        \cup (IF "model" \in bad THEN {} ELSE {"modelData"})
        \cup (IF gfsOk THEN {"dailyForecast"} ELSE {})
        \cup (IF "aqi" \in bad THEN {} ELSE {"airQuality"})

\* App.fetchWeatherData from the grid lookup on: the lookup, Promise.all of
\* the seven fetches, the setters, the daily merge, catch and finally.
fetchWeatherData ==
    /\ handler = "App"
    /\ awaiting
    /\ awaiting' = FALSE
    /\ loading' = FALSE
    /\ IF "points" \in rejected
       THEN /\ fetched' = {"points"}
            /\ error' = <<FailedToFetch>>
            /\ UNCHANGED <<setStates, fused, maxUnits>>
       ELSE IF "points" \in notOk
       THEN /\ fetched' = {"points"}
            /\ error' = <<"Failed to get NWS grid data">>
            /\ UNCHANGED <<setStates, fused, maxUnits>>
       ELSE IF rejected # {}
       THEN /\ fetched' = Fetches
            /\ setStates' = {"nwsGrid"}
            /\ error' = <<FailedToFetch>>
            /\ UNCHANGED <<fused, maxUnits>>
       ELSE /\ fetched' = Fetches
            /\ setStates' = settersOf(notOk, gfsRes.ok)
            /\ error' = error
            /\ IF ~gfsRes.ok
               THEN UNCHANGED <<fused, maxUnits>>
               ELSE IF gemRes.ok
               THEN /\ fused' = <<[hourly |-> gfsRes.hourly,
                                   daily |-> fusedSeries(gfsRes.daily, gemRes.daily)]>>
                    /\ maxUnits' = unitsAtMax(gfsRes.daily, gemRes.daily)
               ELSE /\ fused' = <<[hourly |-> gfsRes.hourly, daily |-> gfsRes.daily]>>
                    /\ maxUnits' = {}
    /\ UNCHANGED <<radarVars, satVars, zoomVars, viewVars, handler, gfsRes, gemRes, rejected, notOk>>

NextFusion ==
    \/ fetchExtended
    \/ fetchWeatherData

SpecFusion == InitFusion /\ [][NextFusion]_vars

\* The refreshes of App or of ModelsTab, one after the other, with fetches
\* that can reject and responses that can be not ok.
NextRefresh ==
    \/ StartExtended
    \/ StartRefresh(PlainSeries, Failures(Fetches, OtherResponses))
    \/ fetchExtended
    \/ fetchWeatherData

SpecRefresh == Init /\ [][NextRefresh]_vars

(* ---------------------------- zoom animation --------------------------- *)

\* Slip: no fallback timeout is set.
flyToCallbacks_NoFallback == {"zoomend"}

\* What the 300 ms callback of startAnimation registers after map.flyTo:
\* map.once('zoomend', ...) and the 2500 ms fallback timeout.
flyToCallbacks == {"zoomend", "fallback"}

\* The map is loaded when the ZoomAnimator effect runs, or fires 'load'
\* later: startAnimation sets the wide view and its 300 ms timeout.
MapLoad ==
    /\ comp = "MiniRadar"
    /\ mounted
    /\ zoomStage = "init"
    /\ zoomStage' = "delay"
    /\ UNCHANGED <<radarVars, fusionVars, satVars, zoomCallbacks, viewVars>>

\* The 300 ms timeout fires: map.flyTo, and the two callbacks are registered.
\* Nothing clears the timeout when the component goes away.
FlyTo ==
    /\ zoomStage = "delay"
    /\ zoomStage' = "flying"
    /\ zoomCallbacks' = flyToCallbacks
    /\ UNCHANGED <<radarVars, fusionVars, satVars, viewVars>>

\* A callback ZoomAnimator registered runs onZoomComplete: once for the
\* listener, once for the timeout. React drops the set of a component that is
\* no longer mounted.
ZoomCallback(c) ==
    /\ ~EffectDue
    /\ zoomCallbacks' = zoomCallbacks \ {c}
    /\ zoomStage' = zoomStage
    /\ IF mounted
       THEN setZoomComplete
       ELSE UNCHANGED <<radarVars, fusionVars, satVars, viewVars>>

\* The map fires 'zoomend'.
ZoomEnd ==
    /\ "zoomend" \in zoomCallbacks
    /\ ZoomCallback("zoomend")

\* The 2500 ms fallback timeout fires.
FallbackTimeout ==
    /\ "fallback" \in zoomCallbacks
    /\ ZoomCallback("fallback")

\* The manifests with both keys present whose only frame, if any, is a past
\* frame of the second of the poll.
CurrentPast == {d \in CurrentManifests : d.missing = {} /\ d.nowcast = <<>>}

\* MiniRadar from mount to teardown: its poller, its zoom animation and its
\* gated playback.
NextZoom ==
    \/ RunMountEffects
    \/ PollTick
    \/ FramesRespond(CurrentPast)
    \/ FramesReject
    \/ fetchRadar(Reliable)
    \/ RunPlaybackEffect
    \/ PlaybackTick
    \/ MapLoad
    \/ FlyTo
    \/ ZoomEnd
    \/ FallbackTimeout
    \/ Unmount

\* Timeouts that are due fire and a render that is due happens; the map need
\* not ever fire 'load' or 'zoomend', and the feed need not ever answer.
SpecZoom ==
    /\ Init
    /\ [][NextZoom]_vars
    /\ WF_vars(FlyTo)
    /\ WF_vars(FallbackTimeout)
    /\ WF_vars(RunPlaybackEffect)

(* ------------------------------ satellite ------------------------------ *)

\* Satellite frames are timed on a radar frame, or halfway to the one before
\* or after it; the tile locator of a frame names its time.
SatFrames ==
    {[time |-> Grid \div 2, path |-> "s"],
     [time |-> Grid, path |-> "t"],
     [time |-> 3 * (Grid \div 2), path |-> "u"]}

\* The values of data.satellite.infrared.
SatelliteLists == UNION {[1..k -> SatFrames] : k \in 0..MaxSat}

\* The manifests with every key present and no nowcast.
PastManifests == {d \in ManifestsOn({"a"}) : d.missing = {} /\ d.nowcast = <<>>}

\* Math.abs
Abs(x) == IF x < 0 THEN -x ELSE x

\* Slip: a later frame at the same distance replaces the earlier one.
closer_OrEqual(curr, prev, targetTime) ==
    Abs(curr.time - targetTime) <= Abs(prev.time - targetTime)

\* Math.abs(curr.time - targetTime) < Math.abs(prev.time - targetTime)
closer(curr, prev, targetTime) ==
    Abs(curr.time - targetTime) < Abs(prev.time - targetTime)

\* frames.reduce((prev, curr) => closer ? curr : prev) from index i on, with
\* prev the accumulator; without an initial value the first frame starts it.
RECURSIVE reduceClosest(_, _, _, _)
reduceClosest(frames, i, prev, targetTime) ==
    IF i > Len(frames) THEN prev
    ELSE reduceClosest(frames, i + 1,
                       IF closer(frames[i], prev, targetTime) THEN frames[i] ELSE prev,
                       targetTime)

\* RadarTab.currentSatelliteUrl: null (<<>>) or the tile URL, which is the
\* path of the closest frame between a fixed prefix and suffix.
currentSatelliteUrl(satFrames, frames, index) ==
    IF Len(satFrames) = 0 \/ index + 1 \notin DOMAIN frames
    THEN <<>>
    ELSE <<reduceClosest(satFrames, 2, satFrames[1], frames[index + 1].time).path>>

\* The request of fetchFrames resolves with a manifest that carries, or
\* lacks, data.satellite.infrared.
FetchResolvesSatellite(manifests, satelliteLists) ==
    /\ comp = "RadarTab"
    /\ ~EffectDue
    /\ ~pending
    /\ \E d \in manifests :
          /\ data' = <<d>>
          /\ again' = (data = <<d>> /\ pollNow = now)
    /\ satellite' \in {<<>>} \cup {<<l>> : l \in satelliteLists}
    /\ pending' = TRUE
    /\ UNCHANGED <<comp, now, cache, cacheKind, cachedFrames, pollNow, shownGen,
                   radarFrames, playVars, op, lifeVars, fusionVars, satelliteFrames,
                   zoomVars, viewVars>>

\* RadarTab with the satellite layer: the poller and the frame controls.
NextSatellite ==
    \/ FetchResolvesSatellite(PastManifests, SatelliteLists)
    \/ fetchFrames(Reliable)
    \/ SkipBackClick
    \/ SkipForwardClick

SpecSatellite == Init /\ [][NextSatellite]_vars

(* ------------------------------ geolocation ---------------------------- *)

\* Slip: the error callback sets no message.
geolocationError_Silent(current) == current

\* setError('Unable to get your location: ' + err.message)
geolocationError(current) == <<"Unable to get your location">>

\* App.handleGeolocate: without navigator.geolocation it sets an error;
\* otherwise setLocating(true) and getCurrentPosition is asked.
handleGeolocate ==
    /\ geo = "idle"
    /\ ~locating
    /\ \/ /\ error' = <<"Geolocation is not supported by your browser">>
          /\ UNCHANGED <<locating, geo>>
       \/ /\ locating' = TRUE
          /\ geo' = "asked"
          /\ error' = error
    /\ UNCHANGED <<radarVars, handler, gfsRes, gemRes, fused, maxUnits, awaiting,
                   rejected, notOk, fetched, setStates, loading, satVars, zoomVars,
                   usAqi, aqiLevel, aqiLabel>>

\* The success callback of getCurrentPosition: reverse geocoding, then
\* setLocation and setLocating(false). The alerts effect of a mounted RadarTab
\* is cleaned up and run again for the new location; the refresh effect of
\* App runs as StartRefresh.
GeolocatePosition ==
    /\ geo = "asked"
    /\ geo' = "idle"
    /\ locating' = FALSE
    /\ \E l \in Locations \ {location} :
          /\ location' = l
          /\ IF comp = "RadarTab" /\ mounted /\ alertTimer > 0 /\ issued < MaxRequests
             THEN /\ requests' = requests
                                   \cup {[poller |-> "alerts", gen |-> issued + 1, loc |-> l]}
                  /\ issued' = issued + 1
                  /\ alertTimer' = clearInterval(alertTimer) + 1
             ELSE UNCHANGED <<requests, issued, alertTimer>>
    /\ UNCHANGED <<comp, now, pollVars, radarFrames, playVars, op, mounted, pollTimer,
                   dataGen, dataOk, alertVars, fusionVars, satVars, zoomVars,
                   usAqi, aqiLevel, aqiLabel>>

\* The error callback of getCurrentPosition (denied, unavailable, timeout).
GeolocateError ==
    /\ geo = "asked"
    /\ geo' = "idle"
    /\ error' = geolocationError(error)
    /\ locating' = FALSE
    /\ UNCHANGED <<radarVars, handler, gfsRes, gemRes, fused, maxUnits, awaiting,
                   rejected, notOk, fetched, setStates, loading, satVars, zoomVars,
                   usAqi, aqiLevel, aqiLabel>>

\* App with its refreshes and the geolocation button.
NextGeo ==
    \/ handleGeolocate
    \/ GeolocatePosition
    \/ GeolocateError
    \/ StartRefresh(FixedDaily, Failures({"points", "aqi"}, {"points"}))
    \/ fetchWeatherData

SpecGeo == Init /\ [][NextGeo]_vars

(* ------------------------------ air quality ---------------------------- *)

\* getAqiLevel(aqi).label
getAqiLevel(aqi) ==
    IF aqi <= 50 THEN "Good"
    ELSE IF aqi <= 100 THEN "Moderate"
    ELSE IF aqi <= 150 THEN "Unhealthy for Sensitive"
    ELSE IF aqi <= 200 THEN "Unhealthy"
    ELSE IF aqi <= 300 THEN "Very Unhealthy"
    ELSE "Hazardous"

\* QuickStats.getAqiLabel(aqi).label; !aqi holds of undefined and of 0.
getAqiLabel(aqi) ==
    IF aqi = <<>> \/ aqi[1] = 0 THEN "--"
    ELSE IF aqi[1] <= 50 THEN "Good"
    ELSE IF aqi[1] <= 100 THEN "Moderate"
    ELSE IF aqi[1] <= 150 THEN "Unhealthy*"
    ELSE IF aqi[1] <= 200 THEN "Unhealthy"
    ELSE "Hazardous"

\* aqi?.us_aqi ?? 0
OrZeroAqi(aqi) == IF aqi = <<>> THEN 0 ELSE aqi[1]

\* setAirQuality with the body of the air-quality response, and the render
\* that follows: the air-quality card and QuickStats classify us_aqi.
setAirQuality ==
    /\ \E v \in {<<>>} \cup {<<n>> : n \in 0..MaxAqi} :
          /\ usAqi' = v
          /\ aqiLevel' = <<getAqiLevel(OrZeroAqi(v))>>
          /\ aqiLabel' = <<getAqiLabel(v)>>
    /\ UNCHANGED <<radarVars, fusionVars, satVars, zoomVars, locating, geo>>

NextAqi == setAirQuality

SpecAqi == Init /\ [][NextAqi]_vars

(* ------------------------------- claims -------------------------------- *)

\* A step in which a poll ran its merge and set the window.
MergeStep == pending /\ ~pending' /\ data' # <<>>

\* The state a merge left: the window, the manifest and the cached frames it
\* read are those of the latest merge.
Merged == ~pending /\ data # <<>>

\* The frames of the latest manifest, in the order of past ++ nowcast.
fresh == IF data = <<>> THEN <<>> ELSE data[1].past \o data[1].nowcast

TimesOf(frames) == {frames[i].time : i \in DOMAIN frames}

\* The frames of a list that are within the retention horizon of nowS.
AgeValid(frames, nowS) ==
    SelectSeq(frames, LAMBDA f : f.time >= nowS - MAX_AGE_SECONDS)

\* The frames of a list that are not later than nowS.
UpTo(frames, nowS) == SelectSeq(frames, LAMBDA f : f.time <= nowS)

\* The last frame of a list that carries time t.
LastAt(frames, t) ==
    frames[CHOOSE j \in DOMAIN frames :
              /\ frames[j].time = t
              /\ \A k \in DOMAIN frames : k > j => frames[k].time # t]

\* C1 (as claimed): every frame of the window a poll hands to setRadarFrames,
\* fresh or cached, has time >= now - MAX_AGE_SECONDS for the now of that poll.
C1_RetentionBound ==
    [][MergeStep =>
          \A i \in DOMAIN radarFrames' :
              radarFrames'[i].time >= now - MAX_AGE_SECONDS]_vars

\* C2: for every time t that occurs both in the cached frames the poll read
\* and in its fresh manifest, the merged window holds at t the frame of the
\* manifest (the last one listed with that time), not the cached frame.
C2_FreshWins ==
    Merged =>
        \A t \in TimesOf(cachedFrames) \cap TimesOf(fresh) :
            /\ \E i \in DOMAIN radarFrames : radarFrames[i] = LastAt(fresh, t)
            /\ \A i \in DOMAIN radarFrames :
                  radarFrames[i].time = t => radarFrames[i] = LastAt(fresh, t)

\* C2 witness: a merge met a cached frame within the horizon and a fresh frame
\* of the same time with another path, and the window shows the fresh one.
C2_Witness ==
    /\ Merged
    /\ \E i \in DOMAIN cachedFrames, j \in DOMAIN fresh :
          /\ cachedFrames[i].time = fresh[j].time
          /\ cachedFrames[i].path # fresh[j].path
          /\ cachedFrames[i].time >= pollNow - MAX_AGE_SECONDS
          /\ \E k \in DOMAIN radarFrames : radarFrames[k] = fresh[j]

\* C3: the displayed window is strictly increasing in time: sorted ascending,
\* no time twice.
C3_StrictlyIncreasing ==
    \A i \in DOMAIN radarFrames :
        i < Len(radarFrames) => radarFrames[i].time < radarFrames[i + 1].time

\* C3 witness: a merged manifest listed two frames out of order, or the same
\* time twice, next to cached frames.
C3_Witness ==
    /\ Merged
    /\ Len(fresh) = 2
    /\ fresh[1].time >= fresh[2].time
    /\ cachedFrames # <<>>
    /\ Len(radarFrames) >= 2

\* C4: a poll that merges the manifest merged last, in the same second, into
\* the window read back from the cache leaves the displayed window as it was.
C4_Idempotent ==
    [][(MergeStep /\ again /\ pollNow = now) => radarFrames' = radarFrames]_vars

\* C4 witness: the same non-empty manifest was merged twice in the same second,
\* the second time into the frames the first merge had stored.
C4_Witness ==
    /\ Merged
    /\ again
    /\ pollNow = now
    /\ fresh # <<>>
    /\ cachedFrames # <<>>
    /\ Len(radarFrames) >= 2

\* C5 (as claimed): a poll with zero fresh frames leaves the displayed window
\* equal to the previous window restricted to its age-valid frames.
C5_EmptyFetchKeepsWindow ==
    [][(MergeStep /\ fresh' = <<>>) => radarFrames' = AgeValid(radarFrames, now)]_vars

\* The frames the persisted cache holds.
persisted == IF cache = <<>> THEN <<>> ELSE JSONparse(cache[1])

\* C5 (amended): a poll with zero fresh frames sets the displayed window to
\* the age-valid frames of the persisted cache, in their order; a poll that
\* threw sets nothing.
C5_EmptyFetchKeepsCached ==
    [][/\ (MergeStep /\ fresh' = <<>>) => radarFrames' = AgeValid(persisted, now)
       /\ (fetchFrames(Reliable) /\ ~MergeStep) => radarFrames' = radarFrames]_vars

\* C5 (amended), the cache the next poll reads: it holds the frames of the
\* window merged last that were not later than the now of that merge, so
\* forecast frames are never persisted.
C5_CacheIsPastOfWindow ==
    Merged => persisted = UpTo(radarFrames, pollNow)

\* C5 witness: an empty manifest was merged and the window still shows cached
\* frames.
C5_Witness ==
    /\ Merged
    /\ fresh = <<>>
    /\ radarFrames # <<>>
    /\ radarFrames = cachedFrames

\* The axes on which the refresh took the maximum: both responses ok and both
\* carrying the series.
FusedAxes ==
    IF fused = <<>> \/ ~gemRes.ok THEN {}
    ELSE {x \in (IF handler = "ModelsTab" THEN {"hourly", "daily"} ELSE {"daily"}) :
            gfsRes[x] # <<>> /\ gemRes[x] # <<>>}

primary(x) == gfsRes[x][1]

secondary(x) == gemRes[x][1]

output(x) == fused[1][x][1]

\* C6: at every index at which both series carry a number, the fused value is
\* the larger of the two.
C6_FusionIsMax ==
    \A x \in FusedAxes :
        \A i \in DOMAIN primary(x) \cap DOMAIN secondary(x) :
            (primary(x)[i] # Null /\ secondary(x)[i] # Null) =>
                /\ output(x)[i] \in {primary(x)[i], secondary(x)[i]}
                /\ output(x)[i][1] >= primary(x)[i][1]
                /\ output(x)[i][1] >= secondary(x)[i][1]

\* C6 witness: a fusion took the secondary's larger value at one index and
\* the primary's larger value at another.
C6_Witness ==
    \E x \in FusedAxes :
        \E i, j \in DOMAIN primary(x) \cap DOMAIN secondary(x) :
            /\ primary(x)[i] # Null /\ secondary(x)[i] # Null
            /\ primary(x)[j] # Null /\ secondary(x)[j] # Null
            /\ secondary(x)[i][1] > primary(x)[i][1]
            /\ primary(x)[j][1] > secondary(x)[j][1]
            /\ output(x)[i] = secondary(x)[i]
            /\ output(x)[j] = primary(x)[j]

\* C7 (as claimed): whichever series is the longer one, every index past the
\* end of the shorter series appears in the output with the longer series'
\* value.
C7_LongerPassesThrough ==
    \A x \in FusedAxes :
        /\ \A i \in DOMAIN primary(x) :
              (i > Len(secondary(x)) /\ primary(x)[i] # Null) =>
                  (i \in DOMAIN output(x) /\ output(x)[i] = primary(x)[i])
        /\ \A i \in DOMAIN secondary(x) :
              (i > Len(primary(x)) /\ secondary(x)[i] # Null) =>
                  (i \in DOMAIN output(x) /\ output(x)[i] = secondary(x)[i])

\* C7 (amended): the output has the primary's length; at every index of the
\* primary at which only one of the two series carries a number, the output
\* carries that number; the values of a longer secondary past the end of the
\* primary are dropped.
C7_PrimaryLengthPassThrough ==
    \A x \in FusedAxes :
        /\ Len(output(x)) = Len(primary(x))
        /\ \A i \in DOMAIN primary(x) :
              /\ (primary(x)[i] # Null
                    /\ (i > Len(secondary(x)) \/ secondary(x)[i] = Null))
                 => output(x)[i] = primary(x)[i]
              /\ (primary(x)[i] = Null
                    /\ i <= Len(secondary(x)) /\ secondary(x)[i] # Null)
                 => output(x)[i] = secondary(x)[i]

\* C7 witness: the primary was the longer series and its last value, a
\* positive number, passed through.
C7_Witness ==
    \E x \in FusedAxes :
        /\ Len(primary(x)) > Len(secondary(x))
        /\ Len(secondary(x)) > 0
        /\ primary(x)[Len(primary(x))] = <<1>>
        /\ output(x)[Len(primary(x))] = <<1>>

\* C8 (as claimed): whenever Math.max is applied, the primary and the
\* secondary series are in the same unit.
C8_SameUnitAtMax ==
    \A u \in maxUnits : u[1] = u[2]

\* C9 (as claimed): whenever the window is non-empty,
\* 0 <= currentFrame < radarFrames.length.
C9_IndexInRange ==
    Len(radarFrames) > 0 => (0 <= currentFrame /\ currentFrame < Len(radarFrames))

\* C10 (as claimed): an auto-advance tick takes index i of a window of
\* length n >= 1 to (i + 1) mod n.
C10_TickWraps ==
    [][(PlaybackTick /\ Len(radarFrames) > 0) =>
          currentFrame' = (currentFrame + 1) % Len(radarFrames)]_vars

\* C11 (as claimed): a scrubber change, a skip-back click or a skip-forward
\* click in RadarTab while isPlaying is true leaves isPlaying false.
C11_ScrubForcesPause ==
    [][(isPlaying /\ (ScrubberChange \/ SkipBackClick \/ SkipForwardClick)) =>
          ~isPlaying']_vars

\* C12: in MiniRadar no playback tick fires while zoomComplete is false, and
\* no playback interval is live then.
C12_PlaybackGated ==
    [][(comp = "MiniRadar" /\ ~zoomComplete) => (interval = 0 /\ ~PlaybackTick)]_vars

\* C12 witness: MiniRadar has ticked over a window of two or more frames
\* after the zoom completed.
C12_Witness ==
    /\ comp = "MiniRadar"
    /\ zoomComplete
    /\ op = "tick"
    /\ Len(radarFrames) >= 2
    /\ currentFrame = 1

\* C13: once the component is torn down, no playback tick, frames poll tick
\* or alerts poll tick fires and none of its intervals is live; an effect that
\* runs again leaves one interval, not two.
C13_NoTickAfterTeardown ==
    [][/\ ~mounted => ~(PlaybackTick \/ PollTick \/ AlertTick)
       /\ ~mounted' => (interval' = 0 /\ pollTimer' = 0 /\ alertTimer' = 0)
       /\ pollTimer' <= 1
       /\ alertTimer' <= 1]_vars

\* C13 witness: a component that was playing, with a request still in flight,
\* has been torn down.
C13_Witness ==
    /\ ~mounted
    /\ op = "tick"
    /\ requests # {}

\* C14 (as claimed): after the teardown a completing fetch changes neither
\* the component's state nor the persisted frame cache.
C14_DiscardAfterTeardown ==
    [][(~mounted /\ ~mounted') =>
          /\ radarFrames' = radarFrames
          /\ currentFrame' = currentFrame
          /\ alertsGeoJson' = alertsGeoJson
          /\ cache' = cache]_vars

\* C15 (as claimed): per poller, a result is never applied after the result
\* of a request issued later has been applied.
C15_NoStaleResult ==
    [][/\ shownGen' # shownGen => shownGen' > shownGen
       /\ alertsGen' # alertsGen => alertsGen' > alertsGen]_vars

\* C16 (as claimed): a frames poll that fails (a rejected fetch, a response
\* that is not ok) and an alerts poll that fails leave radarFrames,
\* currentFrame and alertsGeoJson as they were and the poll timers armed.
C16_FailedPollKeepsState ==
    [][(FramesReject \/ (pending /\ ~dataOk /\ ~pending')) =>
          /\ radarFrames' = radarFrames
          /\ currentFrame' = currentFrame
          /\ alertsGeoJson' = alertsGeoJson
          /\ pollTimer' = pollTimer
          /\ alertTimer' = alertTimer]_vars

\* The response of the poll in progress is one its component can merge.
Usable == comp = "MiniRadar" \/ "past" \notin data[1].missing

\* C17 (as claimed): whatever the cache key holds and whether getItem and
\* setItem throw or not, a poll whose response is usable sets radarFrames to
\* the merge of the fresh frames with the cached ones, or with none (a cold
\* start) when the key could not be read; with an unusable content it is the
\* cold start.
C17_StorageFailureSwallowed ==
    [][((fetchRadar(Unreliable) \/ fetchFrames(Unreliable)) /\ Usable) =>
          LET newFrames == newFramesOf(data[1])
              cold == allFramesOf(<<>>, newFrames, now)
              warm == allFramesOf(cachedFramesOf(cache, cacheKind = "frames"),
                                  newFrames, now)
          IN  /\ radarFrames' \in {cold, warm}
              /\ cacheKind # "frames" => radarFrames' = cold]_vars

\* A refresh has run to its end.
Refreshed == handler # "none" /\ ~awaiting

\* The fetch x of the refresh failed: it rejected or its response is not ok.
failed(x) ==
    \/ x \in rejected \cup notOk
    \/ x = "gfs" /\ ~gfsRes.ok
    \/ x = "gem" /\ ~gemRes.ok

\* C18 (as claimed): after a refresh in which the GEM fetch failed, by a
\* rejection or a response that is not ok, and every other fetch succeeded,
\* the forecast state has been set to the GFS data with its snowfall series
\* as received, and no error is raised.
C18_GemFailureDegrades ==
    (Refreshed /\ failed("gem") /\ \A x \in Fetches \ {"gem"} : ~failed(x)) =>
        /\ (IF handler = "App" THEN "dailyForecast" ELSE "extendedData") \in setStates
        /\ fused = <<[hourly |-> gfsRes.hourly, daily |-> gfsRes.daily]>>
        /\ error = <<>>

\* The fetches on the primary path of App: the grid lookup, the forecasts
\* that need its output, and the two GFS requests.
PrimaryPath == {"points", "forecast", "hourly", "model", "gfs"}

\* C19 (as claimed): App ends a refresh with an error only when a fetch of
\* the primary path failed; the GEM, air quality and alerts fetches failing
\* alone leave the error null.
C19_OnlyPrimaryFailuresSetError ==
    (Refreshed /\ handler = "App" /\ error # <<>>) => \E x \in PrimaryPath : failed(x)

\* C20 (as claimed): when the grid lookup or a GFS fetch failed, App ends the
\* refresh with an error, and after a failed grid lookup neither forecast
\* fetch was issued.
C20_PrimaryFailureSetsError ==
    (Refreshed /\ handler = "App") =>
        /\ (\E x \in {"points", "model", "gfs"} : failed(x)) => error # <<>>
        /\ failed("points") => fetched \cap {"forecast", "hourly"} = {}

\* An alerts response that is ok and has no feature with a geometry.
NoGeometry(res) ==
    /\ res.status = "ok"
    /\ res.features # <<>> => \A i \in DOMAIN res.features[1] : ~res.features[1][i].geometry

\* The step is a run of fetchAlerts: a request of the alerts poller has been
\* answered.
AlertsAnswered == \E r \in requests \ requests' : r.poller = "alerts"

\* The step stored a result in alertsGeoJson.
Stored == alertsGen' # alertsGen

\* C21: whenever the point query of fetchAlerts is answered ok with no
\* feature that has a geometry, the state-wide query is issued, and what is
\* stored then comes from the state-wide response; an empty collection is
\* stored only when both queries were answered ok with no such feature.
C21_FallbackBeforeEmpty ==
    [][AlertsAnswered =>
          /\ NoGeometry(pointRes'[1]) =>
                /\ stateRes' # <<>>
                /\ Stored =>
                      /\ stateRes'[1].status = "ok"
                      /\ \A i \in DOMAIN alertsGeoJson'[1].features :
                            alertsGeoJson'[1].features[i].area = "state"
          /\ (Stored /\ alertsGeoJson'[1].features = <<>>) =>
                /\ NoGeometry(pointRes'[1])
                /\ stateRes' # <<>>
                /\ NoGeometry(stateRes'[1])]_vars

\* C21 witness: an empty collection is shown after a point response and a
\* state-wide response that each listed features, none with a geometry.
C21_Witness ==
    /\ alertsGeoJson # <<>>
    /\ alertsGeoJson[1].features = <<>>
    /\ pointRes # <<>> /\ stateRes # <<>>
    /\ NoGeometry(pointRes[1]) /\ NoGeometry(stateRes[1])
    /\ pointRes[1].features # <<>> /\ Len(pointRes[1].features[1]) > 0
    /\ stateRes[1].features # <<>> /\ Len(stateRes[1].features[1]) > 0

\* C26: every feature of the collection in alertsGeoJson carries a geometry.
C26_OnlyFeaturesWithGeometry ==
    alertsGeoJson # <<>> =>
        \A i \in DOMAIN alertsGeoJson[1].features : alertsGeoJson[1].features[i].geometry

\* C26 witness: the collection shown came from the state-wide fallback, whose
\* response listed a feature with a geometry and one without.
C26_Witness ==
    /\ alertsGeoJson # <<>>
    /\ Len(alertsGeoJson[1].features) = 1
    /\ alertsGeoJson[1].features[1].area = "state"
    /\ stateRes # <<>>
    /\ stateRes[1].features # <<>>
    /\ \E i, j \in DOMAIN stateRes[1].features[1] :
          stateRes[1].features[1][i].geometry /\ ~stateRes[1].features[1][j].geometry

\* C22 (as claimed): a change of the location makes RadarTab fetch the
\* alerts of the new location again and resets its playback: currentFrame is
\* 0 and isPlaying is false afterwards.
C22_LocationChangeResets ==
    [][LocationChange =>
          /\ \E r \in requests' \ requests : r.poller = "alerts" /\ r.loc = location'
          /\ currentFrame' = 0
          /\ ~isPlaying']_vars

\* The band of an AQI value.
BandOf(n) ==
    IF n <= 50 THEN "Good"
    ELSE IF n <= 100 THEN "Moderate"
    ELSE IF n <= 150 THEN "Unhealthy for Sensitive"
    ELSE IF n <= 200 THEN "Unhealthy"
    ELSE IF n <= 300 THEN "Very Unhealthy"
    ELSE "Hazardous"

\* The band a label stands for; QuickStats abbreviates one of them.
BandOfLabel(label) == IF label = "Unhealthy*" THEN "Unhealthy for Sensitive" ELSE label

\* C23 (as claimed): for every integer AQI both classifiers give its band.
C23_AqiBands ==
    usAqi # <<>> =>
        /\ BandOfLabel(aqiLevel[1]) = BandOf(usAqi[1])
        /\ BandOfLabel(aqiLabel[1]) = BandOf(usAqi[1])

\* C24 (as claimed): after a poll that merged, the cache key holds a list
\* of frames and each of them has time >= now - MAX_AGE_SECONDS for the now
\* of that poll.
C24_PersistedAgeCapped ==
    [][MergeStep =>
          /\ cache' # <<>>
          /\ \A i \in DOMAIN cache'[1] :
                JSONparse(cache'[1])[i].time >= now - MAX_AGE_SECONDS]_vars

\* C25: the error callback of getCurrentPosition sets an error message and
\* clears locating; the location, the data already loaded and the requests
\* in flight are as before, and no fetch is started.
C25_GeolocationErrorKeepsData ==
    [][GeolocateError =>
          /\ error' # <<>>
          /\ ~locating'
          /\ location' = location
          /\ UNCHANGED <<fused, setStates, usAqi, alertsGeoJson, radarFrames>>
          /\ UNCHANGED <<awaiting, fetched, requests, issued, loading>>]_vars

\* C25 witness: with the forecasts, the alerts and the air quality loaded, a
\* geolocation request has ended with its error shown.
C25_Witness ==
    /\ error = <<"Unable to get your location">>
    /\ ~locating
    /\ geo = "idle"
    /\ fused # <<>>
    /\ {"forecast", "modelData", "dailyForecast", "alerts", "airQuality"} \subseteq setStates

\* C28: RadarTab is playing only while the frame window is not empty; the
\* play/pause control cannot start playback before frames are loaded.
C28_PlayingOnlyWithFrames ==
    (comp = "RadarTab" /\ isPlaying) => radarFrames # <<>>

\* The distance in time of satellite frame i from the radar frame shown.
SatDistance(i) == Abs(satelliteFrames[i].time - radarFrames[currentFrame + 1].time)

\* C30: with satellite frames and a radar frame at currentFrame, the URL is
\* that of a satellite frame no other frame is closer to the radar frame than,
\* and every frame listed before it is farther; otherwise the URL is null.
C30_ClosestSatelliteFrame ==
    LET url == currentSatelliteUrl(satelliteFrames, radarFrames, currentFrame)
    IN  IF satelliteFrames = <<>> \/ currentFrame + 1 \notin DOMAIN radarFrames
        THEN url = <<>>
        ELSE \E i \in DOMAIN satelliteFrames :
                /\ url = <<satelliteFrames[i].path>>
                /\ \A j \in DOMAIN satelliteFrames :
                      /\ SatDistance(i) <= SatDistance(j)
                      /\ j < i => SatDistance(i) < SatDistance(j)

\* C30 witness: the second radar frame is shown and two satellite frames with
\* different tiles are equally close to it, one before and one after.
C30_Witness ==
    /\ currentFrame = 1
    /\ Len(radarFrames) > 1
    /\ Len(satelliteFrames) = 2
    /\ satelliteFrames[1].path # satelliteFrames[2].path
    /\ satelliteFrames[1].time # satelliteFrames[2].time
    /\ SatDistance(1) = SatDistance(2)
    /\ currentSatelliteUrl(satelliteFrames, radarFrames, currentFrame)
           = <<satelliteFrames[1].path>>

\* The times of the frames the stored text holds.
PersistedTimes == IF cache = <<>> THEN {} ELSE TimesOf(JSONparse(cache[1]))

\* C29: whatever the order in which overlapping polls resume, the merge of a
\* poll keeps every persisted frame that is not older than its cutoff and
\* persists every frame it fetched that is not later than its now: no merge
\* drops what another poll stored.
C29_NoLostUpdate ==
    [][MergeStep =>
          /\ \A t \in PersistedTimes : t >= cutoffOf(now) => t \in PersistedTimes'
          /\ \A t \in TimesOf(newFramesOf(data[1])) : t <= now => t \in PersistedTimes']_vars

\* C29 witness: the first request resolved after a later one; its merge read
\* the frame the later poll had stored, and the cache holds both polls' frames.
C29_Witness ==
    /\ ~pending
    /\ issued >= 2
    /\ dataGen = 1
    /\ shownGen = 1
    /\ data # <<>>
    /\ cachedFrames # <<>>
    /\ TimesOf(cachedFrames) \cap TimesOf(newFramesOf(data[1])) = {}
    /\ TimesOf(newFramesOf(data[1])) # {}
    /\ TimesOf(cachedFrames) \cup TimesOf(newFramesOf(data[1])) \subseteq PersistedTimes

\* C27: in MiniRadar zoomComplete never goes back to false; once the map
\* has loaded it becomes true while the component stays mounted, whether or
\* not 'zoomend' fires; and with frames loaded and the zoom complete the
\* playback interval starts, whether or not another request is made.
C27_GatedStartNotDropped ==
    /\ [][zoomComplete => zoomComplete']_vars
    /\ (comp = "MiniRadar" /\ mounted /\ zoomStage # "init") ~> (zoomComplete \/ ~mounted)
    /\ (comp = "MiniRadar" /\ mounted /\ zoomComplete /\ radarFrames # <<>>)
          ~> (interval # 0 \/ ~mounted)

\* C27 witness: the frames of the first poll were there before the zoom
\* completed, 'zoomend' has not fired, the fallback has, and the frames are
\* advancing with no request made since.
C27_Witness ==
    /\ comp = "MiniRadar"
    /\ mounted
    /\ zoomComplete
    /\ op = "zoom"
    /\ "zoomend" \in zoomCallbacks
    /\ "fallback" \notin zoomCallbacks
    /\ issued = 1
    /\ requests = {}
    /\ radarFrames # <<>>
    /\ interval = Len(radarFrames)

====
